---- MODULE Spec2Model ----
(***************************************************************************)
(* The benchmark orchestration engine of dd-benchmark:                     *)
(*   BenchmarkScheduler (start / stop / runBenchmark / saveCheckpoint),    *)
(*   BenchmarkRunner.runAudit and AuditRunner.runAudit with its polling    *)
(*   loop in sendMessage.                                                  *)
(* Time is counted in seconds; every duration of the code is a multiple of *)
(* one second.  The remote backend is unreliable; the local disk (fs.mkdir *)
(* / fs.writeFile) is reliable except under SpecSetup.                     *)
(***************************************************************************)
EXTENDS Integers, Sequences, FiniteSets, TLC

\* ---------------------------------------------------------------- bounds
Names == {"demo-proj", "other"}
MaxProjects == 2
MaxRuns == 2
MaxFindings == 1
MaxHandlers == 2
\* this.config.timeout, in seconds.  For the runs of the scheduler: one below
\* the grace period, which ends the wait at once.  For the polling loop: that
\* one, and one that lets the poll count pass the hard ceiling and is no
\* multiple of a sleep.
SchedulerTimeouts == {5}
Timeouts == {5, 66}
\* time a fetch takes to answer, in seconds (below its AbortSignal timeout)
Latencies == {0, 5}

\* ------------------------------------------------------ program constants
GracePeriod == 10
StatusFailSleep == 5
WaitSleep == 15
PollInterval == 10
FetchTimeout == 10
EarlyPolls == 6
HardCeiling == 12

None == "none"

\* ------------------------------------------------------------------ text
\* A text is a sequence of words; the empty sequence is the empty string.
\* Substrings(w) is the set of the needles the code searches for that occur
\* in the word w (String.prototype.includes is case-sensitive).
Substrings(w) ==
  CASE w = "slither" -> {"slither"}
    [] w = "aderyn" -> {"aderyn"}
    [] w = "vulnerabilities" -> {"vulnerabilit"}
    [] w = "findings" -> {"finding"}
    [] w = "Findings" -> {}
    [] w = "repository URL" -> {"repository URL"}
    [] w = "no repository" -> {"no repository"}
    [] w = "Could you please provide" -> {"Could you please provide"}
    [] OTHER -> {}

includes(text, needle) == \E i \in DOMAIN text : needle \in Substrings(text[i])

toLowerCaseWord(w) ==
  CASE w = "Slither" -> "slither"
    [] w = "Vulnerabilities" -> "vulnerabilities"
    [] w = "Findings" -> "findings"
    [] w = "repository URL" -> "repository url"
    [] w = "Could you please provide" -> "could you please provide"
    [] w = "Cloning" -> "cloning"
    [] OTHER -> w

toLowerCase(text) == [i \in DOMAIN text |-> toLowerCaseWord(text[i])]

RECURSIVE join(_)
join(texts) == IF texts = <<>> THEN <<>> ELSE Head(texts) \o join(Tail(texts))

\* A content part { type, text? }; an absent text is the empty text (both
\* uses in the code treat undefined and '' alike).
Part(t, x) == [type |-> t, text |-> x]
Msg(r, c) == [role |-> r, content |-> c]

UserMsg == Msg("user", <<Part("text", <<"Run audit">>)>>)
Neutral == Msg("assistant", <<Part("text", <<"Cloning">>)>>)
Analysed == Msg("assistant", <<Part("text", <<"Slither">>)>>)
Reported == Msg("assistant", <<Part("tool_use", <<>>), Part("text", <<"Findings", "done">>)>>)
AskingUrl == Msg("assistant", <<Part("text", <<"Could you please provide", "repository URL">>)>>)
AskingAndTool == Msg("assistant", <<Part("text", <<"no repository">>), Part("text", <<"aderyn">>)>>)
ToolOnly == Msg("assistant", <<Part("tool_result", <<"vulnerabilities">>)>>)

\* message histories the backend may return: all of them ("any") for the
\* polling loop, one of them where the runs of the scheduler are explored
SchedulerHistories == { <<UserMsg, Reported>> }

Histories ==
  { <<UserMsg>>,
    <<UserMsg, Neutral>>,
    <<UserMsg, Analysed, Neutral>>,
    <<UserMsg, Reported>>,
    <<UserMsg, AskingUrl>>,
    <<UserMsg, AskingAndTool>>,
    <<UserMsg, Neutral, ToolOnly>> }

HistoriesOf(b) == IF b = "any" THEN Histories ELSE SchedulerHistories

IsAssistant(m) == m.role = "assistant"
assistantMsgs(messages) == SelectSeq(messages, IsAssistant)

\* lastMsg.content?.map(c => c.text || '').join('') || ''
msgText(m) == join([i \in DOMAIN m.content |-> m.content[i].text])

needsMoreInfo(text) ==
  \/ includes(text, "repository URL")
  \/ includes(text, "no repository")
  \/ includes(text, "Could you please provide")

analysisPerformed(text) ==
  \/ includes(toLowerCase(text), "slither")
  \/ includes(toLowerCase(text), "aderyn")
  \/ includes(toLowerCase(text), "vulnerabilit")
  \/ includes(toLowerCase(text), "finding")

RECURSIVE textParts(_)
\* [...messages].reverse().find(m => m.role === 'assistant'), then the text
\* parts of it concatenated
textParts(content) ==
  IF content = <<>> THEN <<>>
  ELSE (IF Head(content).type = "text" THEN Head(content).text ELSE <<>>)
       \o textParts(Tail(content))

\* mutant: the first assistant message instead of the last
fullResponseOfFirst(messages) ==
  LET a == assistantMsgs(messages)
  IN IF a = <<>> THEN <<>> ELSE textParts(a[1].content)

fullResponseOf(messages) ==
  LET a == assistantMsgs(messages)
  IN IF a = <<>> THEN <<>> ELSE textParts(a[Len(a)].content)

\* ------------------------------------------------------- severity mapping
\* the needles of normalizeSeverity that occur in a (lowercased) severity word
SeverityNeedles(w) ==
  CASE w = "critical" -> {"crit"}
    [] w = "high" -> {"high"}
    [] w = "medium" -> {"med"}
    [] w = "low" -> {"low"}
    [] w = "highly critical" -> {"high", "crit"}
    [] w = "low/medium" -> {"low", "med"}
    [] OTHER -> {}

toLowerCaseSeverity(w) ==
  CASE w = "High" -> "high"
    [] w = "CRITICAL" -> "critical"
    [] w = "Medium" -> "medium"
    [] w = "Low" -> "low"
    [] w = "Highly critical" -> "highly critical"
    [] w = "Low/Medium" -> "low/medium"
    [] w = "Unknown" -> "unknown"
    [] OTHER -> w

\* mutant: an unrecognized severity falls back to medium
normalizeSeverityFallbackMedium(severity) ==
  IF severity = None \/ severity = "" THEN "medium"
  ELSE LET lower == toLowerCaseSeverity(severity)
       IN IF "crit" \in SeverityNeedles(lower) THEN "critical"
          ELSE IF "high" \in SeverityNeedles(lower) THEN "high"
          ELSE IF "med" \in SeverityNeedles(lower) THEN "medium"
          ELSE IF "low" \in SeverityNeedles(lower) THEN "low"
          ELSE "medium"

\* mutant: an absent severity is labelled as such
normalizeSeverityLabelsAbsent(severity) ==
  IF severity = None \/ severity = "" THEN "unset"
  ELSE LET lower == toLowerCaseSeverity(severity)
       IN IF "crit" \in SeverityNeedles(lower) THEN "critical"
          ELSE IF "high" \in SeverityNeedles(lower) THEN "high"
          ELSE IF "med" \in SeverityNeedles(lower) THEN "medium"
          ELSE IF "low" \in SeverityNeedles(lower) THEN "low"
          ELSE "info"

normalizeSeverity(severity) ==
  IF severity = None \/ severity = "" THEN "medium"
  ELSE LET lower == toLowerCaseSeverity(severity)
       IN IF "crit" \in SeverityNeedles(lower) THEN "critical"
          ELSE IF "high" \in SeverityNeedles(lower) THEN "high"
          ELSE IF "med" \in SeverityNeedles(lower) THEN "medium"
          ELSE IF "low" \in SeverityNeedles(lower) THEN "low"
          ELSE "info"

\* f.meta.severity of a record of the findings endpoint: absent (None), empty,
\* or a string
RawSeverities ==
  { None, "", "High", "CRITICAL", "Medium", "Low", "info", "Unknown",
    "Highly critical", "Low/Medium" }

\* finding lists the backend may report: the raw severity of each record
FindingLists == UNION { [1..n -> RawSeverities] : n \in 0..MaxFindings }

\* as for the histories: all of them for the polling loop, two of them where
\* the runs of the scheduler are explored
SchedulerFindingLists == { <<>>, <<"High">> }

FindingListsOf(b) == IF b = "any" THEN FindingLists ELSE SchedulerFindingLists

mapFindings(data) == [i \in DOMAIN data |-> normalizeSeverity(data[i])]

\* mutant: the waiting branches sleep 40 s instead of 15 s
pollDecisionLongWait(n, statusOk, idle, msgOk, messages) ==
  IF ~statusOk THEN [exit |-> FALSE, sleep |-> StatusFailSleep]
  ELSE IF idle THEN
    IF msgOk /\ assistantMsgs(messages) # <<>> THEN
      LET a == assistantMsgs(messages)
          text == msgText(a[Len(a)])
      IN IF n < EarlyPolls /\ needsMoreInfo(text)
           THEN [exit |-> FALSE, sleep |-> 40]
         ELSE IF analysisPerformed(text) \/ n >= HardCeiling
           THEN [exit |-> TRUE, sleep |-> 0]
         ELSE [exit |-> FALSE, sleep |-> 40]
    ELSE IF n < EarlyPolls THEN [exit |-> FALSE, sleep |-> 40]
         ELSE [exit |-> TRUE, sleep |-> 0]
  ELSE [exit |-> FALSE, sleep |-> PollInterval]

\* mutant: only the hard ceiling ends the wait, a completion keyword does not
pollDecisionNoKeyword(n, statusOk, idle, msgOk, messages) ==
  IF ~statusOk THEN [exit |-> FALSE, sleep |-> StatusFailSleep]
  ELSE IF idle THEN
    IF msgOk /\ assistantMsgs(messages) # <<>> THEN
      LET a == assistantMsgs(messages)
          text == msgText(a[Len(a)])
      IN IF n < EarlyPolls /\ needsMoreInfo(text)
           THEN [exit |-> FALSE, sleep |-> WaitSleep]
         ELSE IF n >= HardCeiling
           THEN [exit |-> TRUE, sleep |-> 0]
         ELSE [exit |-> FALSE, sleep |-> WaitSleep]
    ELSE IF n < EarlyPolls THEN [exit |-> FALSE, sleep |-> WaitSleep]
         ELSE [exit |-> TRUE, sleep |-> 0]
  ELSE [exit |-> FALSE, sleep |-> PollInterval]

\* mutant: a session still running is taken as complete at the hard ceiling
pollDecisionCeilingWhileBusy(n, statusOk, idle, msgOk, messages) ==
  IF ~statusOk THEN [exit |-> FALSE, sleep |-> StatusFailSleep]
  ELSE IF idle THEN
    IF msgOk /\ assistantMsgs(messages) # <<>> THEN
      LET a == assistantMsgs(messages)
          text == msgText(a[Len(a)])
      IN IF n < EarlyPolls /\ needsMoreInfo(text)
           THEN [exit |-> FALSE, sleep |-> WaitSleep]
         ELSE IF analysisPerformed(text) \/ n >= HardCeiling
           THEN [exit |-> TRUE, sleep |-> 0]
         ELSE [exit |-> FALSE, sleep |-> WaitSleep]
    ELSE IF n < EarlyPolls THEN [exit |-> FALSE, sleep |-> WaitSleep]
         ELSE [exit |-> TRUE, sleep |-> 0]
  ELSE IF n >= HardCeiling THEN [exit |-> TRUE, sleep |-> 0]
  ELSE [exit |-> FALSE, sleep |-> PollInterval]

\* mutant: the hard ceiling does not end the wait
pollDecisionNoCeiling(n, statusOk, idle, msgOk, messages) ==
  IF ~statusOk THEN [exit |-> FALSE, sleep |-> StatusFailSleep]
  ELSE IF idle THEN
    IF msgOk /\ assistantMsgs(messages) # <<>> THEN
      LET a == assistantMsgs(messages)
          text == msgText(a[Len(a)])
      IN IF n < EarlyPolls /\ needsMoreInfo(text)
           THEN [exit |-> FALSE, sleep |-> WaitSleep]
         ELSE IF analysisPerformed(text)
           THEN [exit |-> TRUE, sleep |-> 0]
         ELSE [exit |-> FALSE, sleep |-> WaitSleep]
    ELSE IF n < EarlyPolls THEN [exit |-> FALSE, sleep |-> WaitSleep]
         ELSE [exit |-> TRUE, sleep |-> 0]
  ELSE [exit |-> FALSE, sleep |-> PollInterval]

\* mutant: a needs-more-information signal keeps the wait going at every poll count
pollDecisionAskingAlways(n, statusOk, idle, msgOk, messages) ==
  IF ~statusOk THEN [exit |-> FALSE, sleep |-> StatusFailSleep]
  ELSE IF idle THEN
    IF msgOk /\ assistantMsgs(messages) # <<>> THEN
      LET a == assistantMsgs(messages)
          text == msgText(a[Len(a)])
      IN IF needsMoreInfo(text)
           THEN [exit |-> FALSE, sleep |-> WaitSleep]
         ELSE IF analysisPerformed(text) \/ n >= HardCeiling
           THEN [exit |-> TRUE, sleep |-> 0]
         ELSE [exit |-> FALSE, sleep |-> WaitSleep]
    ELSE IF n < EarlyPolls THEN [exit |-> FALSE, sleep |-> WaitSleep]
         ELSE [exit |-> TRUE, sleep |-> 0]
  ELSE [exit |-> FALSE, sleep |-> PollInterval]

\* mutant: a history without an assistant message never ends the wait
pollDecisionEmptyWaits(n, statusOk, idle, msgOk, messages) ==
  IF ~statusOk THEN [exit |-> FALSE, sleep |-> StatusFailSleep]
  ELSE IF idle THEN
    IF msgOk /\ assistantMsgs(messages) # <<>> THEN
      LET a == assistantMsgs(messages)
          text == msgText(a[Len(a)])
      IN IF n < EarlyPolls /\ needsMoreInfo(text)
           THEN [exit |-> FALSE, sleep |-> WaitSleep]
         ELSE IF analysisPerformed(text) \/ n >= HardCeiling
           THEN [exit |-> TRUE, sleep |-> 0]
         ELSE [exit |-> FALSE, sleep |-> WaitSleep]
    ELSE [exit |-> FALSE, sleep |-> WaitSleep]
  ELSE [exit |-> FALSE, sleep |-> PollInterval]

\* ------------------------------------------------------------ poll decision
\* One iteration of the while loop of sendMessage after both responses are
\* in: n is pollCount after its increment, statusOk / msgOk are response.ok,
\* idle is (status === 'idle' && runningId === null).  exit is the break.
pollDecision(n, statusOk, idle, msgOk, messages) ==
  IF ~statusOk THEN [exit |-> FALSE, sleep |-> StatusFailSleep]
  ELSE IF idle THEN
    IF msgOk /\ assistantMsgs(messages) # <<>> THEN
      LET a == assistantMsgs(messages)
          text == msgText(a[Len(a)])
      IN IF n < EarlyPolls /\ needsMoreInfo(text)
           THEN [exit |-> FALSE, sleep |-> WaitSleep]
         ELSE IF analysisPerformed(text) \/ n >= HardCeiling
           THEN [exit |-> TRUE, sleep |-> 0]
         ELSE [exit |-> FALSE, sleep |-> WaitSleep]
    ELSE IF n < EarlyPolls THEN [exit |-> FALSE, sleep |-> WaitSleep]
         ELSE [exit |-> TRUE, sleep |-> 0]
  ELSE [exit |-> FALSE, sleep |-> PollInterval]

\* ground truth: the severity of each finding getGroundTruth returns
GroundTruths == { <<>>, <<"high", "medium">>, <<"high", "high">> }
SchedulerGroundTruths == { <<"high", "medium">> }
GroundTruthsOf(b) == IF b = "any" THEN GroundTruths ELSE SchedulerGroundTruths

\* bySeverity of buildRunResult: the count of the findings of each severity
\* that occurs
bySeverity(truth) ==
  [s \in { truth[i] : i \in DOMAIN truth } |->
     Cardinality({ i \in DOMAIN truth : truth[i] = s })]

\* the polling loop has not been left
NoWaitEnd == [polls |-> 0, by |-> None]

\* what one poll saw, kept beside the decision it led to
NoObs == [status |-> None, msgs |-> None, asst |-> FALSE, needs |-> FALSE,
          analysis |-> FALSE, exit |-> FALSE]

observe(statusOk, idle, msgOk, messages) ==
  LET a == assistantMsgs(messages)
      got == statusOk /\ idle /\ msgOk /\ a # <<>>
  IN [status |-> IF ~statusOk THEN "fail" ELSE IF idle THEN "idle" ELSE "busy",
      msgs |-> IF ~(statusOk /\ idle) THEN None ELSE IF msgOk THEN "ok" ELSE "fail",
      asst |-> got,
      needs |-> got /\ needsMoreInfo(msgText(a[Len(a)])),
      analysis |-> got /\ analysisPerformed(msgText(a[Len(a)])),
      exit |-> FALSE]

\* -------------------------------------------------------------------- state
VARIABLES
  \* BenchmarkScheduler
  isRunning, shouldStop, checkpoint,
  projects,        \* the list passed to the start() in progress
  idx,             \* position of the for loop of runBenchmark in projects
  pc,              \* where the control thread is suspended
  startPromise,    \* the promise of the last accepted start(): none / pending / resolved
  disk,            \* checkpoint.json, None before the first write
  runs,            \* accepted start() calls so far
  settings,        \* this.settings, as passed to the constructor
  fs,              \* whether writing under this.dataDir may fail ("failing") or not
  \* AuditRunner / BenchmarkRunner
  timeout,         \* this.config.timeout, in seconds
  backend,         \* which message histories the backend may answer with
  elapsed, pollCount, lastSessionLogs, fullResponse, findings,
  data,            \* the body of the last answer of the findings endpoint
  artifacts,       \* findings-<timestamp>.json files written, by project
  runResults,      \* run-<timestamp>.json files written, by project
  groundTruth,     \* severities of the findings getGroundTruth returned
  runResult,       \* the RunResult the current audit built and wrote, <<>> before
  \* what an observer of the run has seen
  waitEnd,         \* poll count at the end of the polling loop and what ended it
  events,          \* events emitted during the current run
  calls,           \* projects runAudit was invoked for during the current run
  remoteCalls,     \* remote steps of the current audit with their outcome
  obs,             \* what the last poll of the current audit saw
  auditErr,        \* message of the error the current audit threw
  errorMessage,    \* message carried by the error event of the current audit
  stopRequested,   \* stop() or a signal arrived during the current run
  stopMark,        \* project_started events emitted when a stop first arrived in flight
  emptyAtStart, completedAtStart,
  startThrew,      \* some start() call failed with 'Benchmark is already running'
  \* the registered event handlers
  listeners,       \* whether they may throw or reject ("failing") or not ("quiet")
  received,        \* events of the current run each handler was invoked with
  threwOn          \* type of the first event of the run a handler threw or rejected on

sched == <<isRunning, shouldStop, checkpoint, projects, idx, pc, startPromise, disk, runs>>
runner == <<timeout, backend, elapsed, pollCount, lastSessionLogs, fullResponse, findings,
            data, artifacts, runResults>>
seen == <<events, calls, remoteCalls, obs, auditErr, errorMessage, stopRequested, stopMark,
          emptyAtStart, completedAtStart, startThrew>>
audit == <<groundTruth, runResult, waitEnd>>
handlers == <<listeners, received, threwOn>>
config == <<settings, fs>>
vars == <<sched, runner, seen, audit, handlers, config>>

\* the handlers registered with onEvent, in the order of their registration
Handlers == 1..MaxHandlers

ProjectLists == UNION { [1..n -> Names] : n \in 0..MaxProjects }

Range(f) == { f[i] : i \in DOMAIN f }

createInitialCheckpoint ==
  [currentProject |-> None, completedProjects |-> <<>>, failedProjects |-> <<>>]

\* scheduler.max_concurrent_projects of the configuration
Concurrency == {1, 3}
SchedulerSettings == { [maxConcurrentProjects |-> n] : n \in Concurrency }

InitOf(timeouts, histories, eventHandlers, configs, disks) ==
  /\ settings \in configs
  /\ fs = disks
  /\ isRunning = FALSE
  /\ shouldStop = FALSE
  /\ checkpoint = createInitialCheckpoint
  /\ projects = <<>>
  /\ idx = 0
  /\ pc = "idle"
  /\ startPromise = None
  /\ disk = None
  /\ runs = 0
  /\ timeout \in timeouts
  /\ backend = histories
  /\ elapsed = 0
  /\ pollCount = 0
  /\ lastSessionLogs = <<>>
  /\ fullResponse = <<>>
  /\ findings = <<>>
  /\ data = <<>>
  /\ groundTruth = <<>>
  /\ runResult = <<>>
  /\ waitEnd = NoWaitEnd
  /\ artifacts = <<>>
  /\ runResults = <<>>
  /\ events = <<>>
  /\ calls = <<>>
  /\ remoteCalls = <<>>
  /\ obs = NoObs
  /\ auditErr = None
  /\ errorMessage = None
  /\ stopRequested = FALSE
  /\ stopMark = -1
  /\ emptyAtStart = FALSE
  /\ completedAtStart = {}
  /\ startThrew = FALSE
  /\ listeners = eventHandlers
  /\ received = [h \in Handlers |-> 0]
  /\ threwOn = None

InitWith(timeouts, histories, eventHandlers) ==
  InitOf(timeouts, histories, eventHandlers, {[maxConcurrentProjects |-> 1]}, "reliable")

Init == InitWith(SchedulerTimeouts, "reported", "quiet")

\* ------------------------------------------------------------- scheduler
\* a handler returns (or its promise resolves), throws, or its promise rejects
HandlerOutcomes == {"ok", "throw", "reject"}
HandlerOutcomesOf(l) == IF l = "failing" THEN HandlerOutcomes ELSE {"ok"}

\* mutant: no try / catch around the call of a handler
emitNoCatch(outcomes) ==
  { h \in Handlers : \A g \in Handlers : g < h => outcomes[g] = "ok" }

\* emit: the handlers invoked with an event, given what each of them does
\* when invoked; what a handler throws is caught and logged
emit(outcomes) == { h \in Handlers : TRUE }

\* The events appended to base in this step are emitted one after the other.
notify(base, count, mark) ==
  LET new == SubSeq(events', Len(base) + 1, Len(events'))
  IN \E outs \in [DOMAIN new -> [Handlers -> HandlerOutcomesOf(listeners)]] :
       LET failed == { k \in DOMAIN new :
                         \E h \in emit(outs[k]) : outs[k][h] # "ok" }
       IN /\ received' = [h \in Handlers |->
                            count[h] + Cardinality({ k \in DOMAIN new : h \in emit(outs[k]) })]
          /\ threwOn' = IF mark # None \/ failed = {} THEN mark
                        ELSE new[CHOOSE k \in failed : \A j \in failed : k <= j].type
          /\ UNCHANGED listeners

\* mutant: completed projects are not skipped
nextProjectNoSkip(ps, i, stop, completed) ==
  IF i > Len(ps) THEN 0
  ELSE IF stop THEN 0
  ELSE i

\* mutant: the loop does not look at shouldStop
RECURSIVE nextProjectIgnoresStop(_, _, _, _)
nextProjectIgnoresStop(ps, i, stop, completed) ==
  IF i > Len(ps) THEN 0
  ELSE IF ps[i] \in Range(completed) THEN nextProjectIgnoresStop(ps, i + 1, stop, completed)
  ELSE i

\* mutant: the list is walked from its end
nextProjectFromEnd(ps, i, stop, completed) ==
  LET open == { j \in i..Len(ps) : ps[j] \notin Range(completed) }
  IN IF i > Len(ps) THEN 0
     ELSE IF stop THEN 0
     ELSE IF open = {} THEN 0
     ELSE CHOOSE j \in open : \A k \in open : k <= j

\* The for loop of runBenchmark from position i up to its next await: the
\* index of the next project to audit, 0 when the loop ends (break on
\* shouldStop, or list exhausted); completed projects are skipped.
RECURSIVE nextProject(_, _, _, _)
nextProject(ps, i, stop, completed) ==
  IF i > Len(ps) THEN 0
  ELSE IF stop THEN 0
  ELSE IF ps[i] \in Range(completed) THEN nextProject(ps, i + 1, stop, completed)
  ELSE i

\* mutant: failed projects are skipped like completed ones
runBenchmarkSkipsFailed(ps, i, stop, c, ev) ==
  LET j == nextProject(ps, i, stop, c.completedProjects \o c.failedProjects)
  IN IF j = 0
       THEN /\ isRunning' = FALSE
            /\ startPromise' = "resolved"
            /\ pc' = "idle"
            /\ idx' = 0
            /\ checkpoint' = c
            /\ events' = ev
       ELSE /\ isRunning' = TRUE
            /\ startPromise' = "pending"
            /\ pc' = "runAudit"
            /\ idx' = j
            /\ checkpoint' = [c EXCEPT !.currentProject = ps[j]]
            /\ events' = Append(ev, [type |-> "project_started", project |-> ps[j]])

\* runBenchmark resumed at position i with checkpoint c and event log ev:
\* either the next project is marked current and project_started is emitted,
\* or the loop ends, the finally block clears isRunning and start() resolves.
runBenchmark(ps, i, stop, c, ev) ==
  LET j == nextProject(ps, i, stop, c.completedProjects)
  IN IF j = 0
       THEN /\ isRunning' = FALSE
            /\ startPromise' = "resolved"
            /\ pc' = "idle"
            /\ idx' = 0
            /\ checkpoint' = c
            /\ events' = ev
       ELSE /\ isRunning' = TRUE
            /\ startPromise' = "pending"
            /\ pc' = "runAudit"
            /\ idx' = j
            /\ checkpoint' = [c EXCEPT !.currentProject = ps[j]]
            /\ events' = Append(ev, [type |-> "project_started", project |-> ps[j]])

\* mutant: no re-entrancy guard, a start() during a run enters runBenchmark
startNoGuard(ps) ==
  LET ev == IF isRunning THEN events ELSE <<>>
  IN /\ runs < MaxRuns
     /\ shouldStop' = FALSE
     /\ projects' = ps
     /\ runs' = runs + 1
     /\ runBenchmark(ps, 1, FALSE, checkpoint, ev)
     /\ notify(ev, IF isRunning THEN received ELSE [h \in Handlers |-> 0],
               IF isRunning THEN threwOn ELSE None)
     /\ calls' = IF isRunning THEN calls ELSE <<>>
     /\ stopRequested' = FALSE
     /\ stopMark' = -1
     /\ emptyAtStart' = (checkpoint.completedProjects = <<>>
                         /\ checkpoint.failedProjects = <<>>)
     /\ completedAtStart' = Range(checkpoint.completedProjects)
     /\ UNCHANGED <<disk, runner, audit, config, remoteCalls, obs, auditErr, errorMessage,
                    startThrew>>

\* mutant: the flags are reset before the re-entrancy guard
startResetsFirst(ps) ==
  IF isRunning
    THEN /\ startThrew' = TRUE
         /\ shouldStop' = FALSE
         /\ UNCHANGED <<isRunning, checkpoint, projects, idx, pc, startPromise, disk,
                        runs, runner, audit, handlers, config, events, calls, remoteCalls, obs,
                        auditErr, errorMessage, stopRequested, stopMark, emptyAtStart,
                        completedAtStart>>
    ELSE /\ runs < MaxRuns
         /\ shouldStop' = FALSE
         /\ projects' = ps
         /\ runs' = runs + 1
         /\ runBenchmark(ps, 1, FALSE, checkpoint, <<>>)
         /\ notify(<<>>, [h \in Handlers |-> 0], None)
         /\ calls' = <<>>
         /\ stopRequested' = FALSE
         /\ stopMark' = -1
         /\ emptyAtStart' = (checkpoint.completedProjects = <<>>
                             /\ checkpoint.failedProjects = <<>>)
         /\ completedAtStart' = Range(checkpoint.completedProjects)
         /\ UNCHANGED <<disk, runner, audit, config, remoteCalls, obs, auditErr, errorMessage,
                        startThrew>>

start(ps) ==
  IF isRunning
    THEN /\ startThrew' = TRUE
         /\ UNCHANGED <<sched, runner, audit, handlers, config, events, calls, remoteCalls, obs, auditErr,
                        errorMessage, stopRequested, stopMark, emptyAtStart, completedAtStart>>
    ELSE /\ runs < MaxRuns
         /\ shouldStop' = FALSE
         /\ projects' = ps
         /\ runs' = runs + 1
         /\ runBenchmark(ps, 1, FALSE, checkpoint, <<>>)
         /\ notify(<<>>, [h \in Handlers |-> 0], None)
         /\ calls' = <<>>
         /\ stopRequested' = FALSE
         /\ stopMark' = -1
         /\ emptyAtStart' = (checkpoint.completedProjects = <<>>
                             /\ checkpoint.failedProjects = <<>>)
         /\ completedAtStart' = Range(checkpoint.completedProjects)
         /\ UNCHANGED <<disk, runner, audit, config, remoteCalls, obs, auditErr, errorMessage,
                        startThrew>>

Started(ev) == SelectSeq(ev, LAMBDA e : e.type = "project_started")

stop ==
  /\ shouldStop' = TRUE
  /\ stopRequested' = (stopRequested \/ isRunning)
  /\ stopMark' = IF stopMark = -1 /\ checkpoint.currentProject # None
                   THEN Len(Started(events)) ELSE stopMark
  /\ UNCHANGED <<isRunning, checkpoint, projects, idx, pc, startPromise, disk, runs,
                 runner, audit, handlers, config, events, calls, remoteCalls, obs, auditErr,
                 errorMessage, emptyAtStart, completedAtStart, startThrew>>

\* SIGINT / SIGTERM: the handler of setupSignalHandlers, installed by start()
signal ==
  /\ runs > 0
  /\ stop

\* mutant: the failed project is not recorded
catchErrorNoRecord(message) ==
  /\ checkpoint' = [checkpoint EXCEPT !.currentProject = None]
  /\ events' = Append(events, [type |-> "error", project |-> projects[idx]])
  /\ notify(events, received, threwOn)
  /\ errorMessage' = message
  /\ auditErr' = message
  /\ pc' = "saveCheckpoint"

\* mutant: the failure is recorded but no error event is emitted
catchErrorSilent(message) ==
  /\ checkpoint' = [checkpoint EXCEPT
                      !.failedProjects = Append(@, projects[idx]),
                      !.currentProject = None]
  /\ events' = events
  /\ notify(events, received, threwOn)
  /\ errorMessage' = errorMessage
  /\ auditErr' = message
  /\ pc' = "saveCheckpoint"

\* the catch block of runBenchmark, then currentProject = null
catchError(message) ==
  /\ checkpoint' = [checkpoint EXCEPT
                      !.failedProjects = Append(@, projects[idx]),
                      !.currentProject = None]
  /\ events' = Append(events, [type |-> "error", project |-> projects[idx]])
  /\ notify(events, received, threwOn)
  /\ errorMessage' = message
  /\ auditErr' = message
  /\ pc' = "saveCheckpoint"

\* mutant: project_completed is emitted before audit_completed
auditCompletedSwapped ==
  /\ checkpoint' = [checkpoint EXCEPT
                      !.completedProjects = Append(@, projects[idx]),
                      !.currentProject = None]
  /\ events' = events \o << [type |-> "project_completed", project |-> projects[idx]],
                            [type |-> "audit_completed", project |-> projects[idx]] >>
  /\ notify(events, received, threwOn)
  /\ pc' = "saveCheckpoint"

\* the rest of the try block after runAudit returned, then currentProject = null
auditCompleted ==
  /\ checkpoint' = [checkpoint EXCEPT
                      !.completedProjects = Append(@, projects[idx]),
                      !.currentProject = None]
  /\ events' = events \o << [type |-> "audit_completed", project |-> projects[idx]],
                            [type |-> "project_completed", project |-> projects[idx]] >>
  /\ notify(events, received, threwOn)
  /\ pc' = "saveCheckpoint"

\* mutant: the file is written without the lists of the checkpoint
saveCheckpointEventOnly ==
  /\ pc = "saveCheckpoint"
  /\ disk' = createInitialCheckpoint
  /\ runBenchmark(projects, idx + 1, shouldStop, checkpoint,
                  Append(events, [type |-> "checkpoint_saved", project |-> None]))
  /\ notify(events, received, threwOn)
  /\ remoteCalls' = <<>>
  /\ obs' = NoObs
  /\ auditErr' = None
  /\ errorMessage' = None
  /\ fullResponse' = <<>>
  /\ findings' = <<>>
  /\ data' = <<>>
  /\ groundTruth' = <<>>
  /\ runResult' = <<>>
  /\ waitEnd' = NoWaitEnd
  /\ UNCHANGED <<shouldStop, projects, runs, config, timeout, backend, elapsed, pollCount,
                 lastSessionLogs, artifacts, runResults, calls, stopRequested,
                 stopMark, emptyAtStart, completedAtStart, startThrew>>

\* fs.mkdir and fs.writeFile resolve, or one of them rejects
WriteOutcomes == {"ok", "throw"}
WriteOutcomesOf(f) == IF f = "failing" THEN WriteOutcomes ELSE {"ok"}

\* mutant: start() has no finally block
rejectStartKeepsRunning ==
  /\ isRunning' = TRUE
  /\ startPromise' = "rejected"
  /\ pc' = "idle"
  /\ idx' = 0
  /\ UNCHANGED <<checkpoint, events, handlers>>

\* an error leaves runBenchmark: the finally block of start() clears
\* isRunning and the promise of start() rejects
rejectStart ==
  /\ isRunning' = FALSE
  /\ startPromise' = "rejected"
  /\ pc' = "idle"
  /\ idx' = 0
  /\ UNCHANGED <<checkpoint, events, handlers>>

\* the write of checkpoint.json, the checkpoint_saved event and the next turn
\* of the loop of runBenchmark; a write that fails ends the run
saveCheckpoint ==
  /\ pc = "saveCheckpoint"
  /\ \E o \in WriteOutcomesOf(fs) :
       IF o = "ok"
         THEN /\ disk' = checkpoint
              /\ runBenchmark(projects, idx + 1, shouldStop, checkpoint,
                              Append(events, [type |-> "checkpoint_saved", project |-> None]))
              /\ notify(events, received, threwOn)
         ELSE /\ disk' = disk
              /\ rejectStart
  /\ remoteCalls' = <<>>
  /\ obs' = NoObs
  /\ auditErr' = None
  /\ errorMessage' = None
  /\ fullResponse' = <<>>
  /\ findings' = <<>>
  /\ data' = <<>>
  /\ groundTruth' = <<>>
  /\ runResult' = <<>>
  /\ waitEnd' = NoWaitEnd
  /\ UNCHANGED <<shouldStop, projects, runs, config, timeout, backend, elapsed, pollCount,
                 lastSessionLogs, artifacts, runResults, calls, stopRequested,
                 stopMark, emptyAtStart, completedAtStart, startThrew>>

\* ---------------------------------------------------------------- runner
\* what no step of an audit touches
frame == <<isRunning, shouldStop, projects, idx, startPromise, disk, runs, config, timeout, backend,
           stopRequested, stopMark, emptyAtStart, completedAtStart, startThrew>>

\* a fetch answers 2xx ("ok"), answers non-2xx ("fail"), or rejects ("throw":
\* network error, or its AbortSignal timed out)
Outcomes == {"ok", "fail", "throw"}

proceed(next) ==
  /\ pc' = next
  /\ UNCHANGED <<checkpoint, events, auditErr, errorMessage, handlers>>

\* mutant: response.ok is not checked
respondIgnoresFailure(step, o, next, message) ==
  /\ remoteCalls' = Append(remoteCalls, <<step, o>>)
  /\ IF o # "throw" THEN proceed(next)
     ELSE catchError("fetch failed")

\* the step's request was answered with outcome o: go on, or throw
respond(step, o, next, message) ==
  /\ remoteCalls' = Append(remoteCalls, <<step, o>>)
  /\ IF o = "ok" THEN proceed(next)
     ELSE catchError(IF o = "fail" THEN message ELSE "fetch failed")

\* this.runAudit(project): BenchmarkRunner.runAudit fetches the ground truth,
\* then AuditRunner.runAudit resets lastSessionLogs and requests the project
runAudit ==
  /\ pc = "runAudit"
  /\ calls' = Append(calls, projects[idx])
  /\ \E gt \in {"ok", "throw"}, truth \in GroundTruthsOf(backend) :
       IF gt = "ok"
         THEN /\ groundTruth' = truth
              /\ lastSessionLogs' = <<>>
              /\ proceed("createProject")
         ELSE /\ catchError("ground truth failed")
              /\ UNCHANGED <<groundTruth, lastSessionLogs>>
  /\ UNCHANGED <<frame, runResult, waitEnd, elapsed, pollCount, fullResponse, findings, data, artifacts,
                 runResults, remoteCalls, obs>>

\* the requests made without an AbortSignal: nothing ends the await of one
\* the backend never answers
Untimed == {"createProject", "createSession"}

\* a backend that may stay silent ("silent") adds that outcome to them
OutcomesOf(step) ==
  Outcomes \cup (IF backend = "silent" /\ step \in Untimed THEN {"never"} ELSE {})

\* the await of the step's fetch never resumes
awaitForever(step) ==
  /\ remoteCalls' = Append(remoteCalls, <<step, "never">>)
  /\ proceed("blocked")

\* mutant: the session is requested without waiting for the container
createProjectThenSession ==
  /\ pc = "createProject"
  /\ \E o \in Outcomes :
       respond("createProject", o, "createSession", "Failed to create project")
  /\ UNCHANGED <<frame, audit, elapsed, pollCount, lastSessionLogs, fullResponse, findings, data,
                 artifacts, runResults, calls, obs>>

createProject ==
  /\ pc = "createProject"
  /\ \E o \in OutcomesOf("createProject") :
       IF o = "never" THEN awaitForever("createProject")
       ELSE respond("createProject", o, "ensureContainer", "Failed to create project")
  /\ UNCHANGED <<frame, audit, elapsed, pollCount, lastSessionLogs, fullResponse, findings, data,
                 artifacts, runResults, calls, obs>>

\* mutant: the response of the container endpoint is not looked at
ensureContainerUnchecked ==
  /\ pc = "ensureContainer"
  /\ \E o \in Outcomes :
       respondIgnoresFailure("ensureContainer", o, "createSession",
                             "Failed to ensure container")
  /\ UNCHANGED <<frame, audit, elapsed, pollCount, lastSessionLogs, fullResponse, findings, data,
                 artifacts, runResults, calls, obs>>

ensureContainer ==
  /\ pc = "ensureContainer"
  /\ \E o \in Outcomes :
       respond("ensureContainer", o, "createSession", "Failed to ensure container")
  /\ UNCHANGED <<frame, audit, elapsed, pollCount, lastSessionLogs, fullResponse, findings, data,
                 artifacts, runResults, calls, obs>>

createSession ==
  /\ pc = "createSession"
  /\ \E o \in OutcomesOf("createSession") :
       IF o = "never" THEN awaitForever("createSession")
       ELSE respond("createSession", o, "sendMessage", "Failed to create session")
  /\ UNCHANGED <<frame, audit, elapsed, pollCount, lastSessionLogs, fullResponse, findings, data,
                 artifacts, runResults, calls, obs>>

\* sendMessage up to its polling loop: POST chat/stream, startTime = now,
\* pollCount = 0, then the grace period
sendMessage ==
  /\ pc = "sendMessage"
  /\ \E o \in Outcomes :
       /\ respond("chatStream", o, "poll", "Failed to start chat")
       /\ elapsed' = IF o = "ok" THEN GracePeriod ELSE 0
  /\ pollCount' = 0
  /\ UNCHANGED <<frame, audit, lastSessionLogs, fullResponse, findings, data, artifacts,
                 runResults, calls, obs>>

\* mutant: an iteration whose status check failed is not counted
pollSkipsFailedChecks ==
  /\ pc = "poll"
  /\ IF ~(elapsed < timeout)
       THEN /\ proceed("messages")
            /\ waitEnd' = [polls |-> pollCount, by |-> "timeout"]
            /\ UNCHANGED <<elapsed, pollCount, obs>>
       ELSE \E so \in Outcomes, l1 \in Latencies :
         IF so = "throw"
           THEN /\ catchError("fetch failed")
                /\ elapsed' = 0 /\ pollCount' = 0 /\ obs' = obs
                /\ waitEnd' = waitEnd
         ELSE \E status \in {"idle", "running"}, runningId \in {None, "run-1"} :
           LET idle == status = "idle" /\ runningId = None
           IN \E mo \in (IF so = "ok" /\ idle THEN Outcomes ELSE {"ok"}),
                 l2 \in (IF so = "ok" /\ idle THEN Latencies ELSE {0}),
                 messages \in (IF so = "ok" /\ idle THEN HistoriesOf(backend) ELSE {<<>>}) :
             IF mo = "throw"
               THEN /\ catchError("fetch failed")
                    /\ elapsed' = 0 /\ pollCount' = 0 /\ obs' = obs
                    /\ waitEnd' = waitEnd
             ELSE LET n == IF so = "ok" THEN pollCount + 1 ELSE pollCount
                      d == pollDecision(n, so = "ok", idle, mo = "ok", messages)
                  IN /\ pollCount' = n
                     /\ elapsed' = elapsed + l1 + l2 + d.sleep
                     /\ obs' = [observe(so = "ok", idle, mo = "ok", messages)
                                  EXCEPT !.exit = d.exit]
                     /\ waitEnd' = IF ~d.exit THEN waitEnd
                                   ELSE [polls |-> n,
                                         by |-> IF observe(so = "ok", idle, mo = "ok",
                                                              messages).analysis
                                                  THEN "keyword" ELSE "break"]
                     /\ proceed(IF d.exit THEN "messages" ELSE "poll")
  /\ UNCHANGED <<frame, groundTruth, runResult, lastSessionLogs, fullResponse, findings, data, artifacts,
                 runResults, calls, remoteCalls>>

\* One evaluation of the while condition and, when it holds, one iteration:
\* the status fetch, the message fetch when the session is idle, the decision
\* and the sleep.  A fetch that rejects throws out of sendMessage.
poll ==
  /\ pc = "poll"
  /\ IF ~(elapsed < timeout)
       THEN /\ proceed("messages")
            /\ waitEnd' = [polls |-> pollCount, by |-> "timeout"]
            /\ UNCHANGED <<elapsed, pollCount, obs>>
       ELSE \E so \in Outcomes, l1 \in Latencies :
         IF so = "throw"
           THEN /\ catchError("fetch failed")
                /\ elapsed' = 0 /\ pollCount' = 0 /\ obs' = obs
                /\ waitEnd' = waitEnd
         ELSE \E status \in {"idle", "running"}, runningId \in {None, "run-1"} :
           LET idle == status = "idle" /\ runningId = None
           IN \E mo \in (IF so = "ok" /\ idle THEN Outcomes ELSE {"ok"}),
                 l2 \in (IF so = "ok" /\ idle THEN Latencies ELSE {0}),
                 messages \in (IF so = "ok" /\ idle THEN HistoriesOf(backend) ELSE {<<>>}) :
             IF mo = "throw"
               THEN /\ catchError("fetch failed")
                    /\ elapsed' = 0 /\ pollCount' = 0 /\ obs' = obs
                    /\ waitEnd' = waitEnd
             ELSE LET d == pollDecision(pollCount + 1, so = "ok", idle, mo = "ok", messages)
                  IN /\ pollCount' = pollCount + 1
                     /\ elapsed' = elapsed + l1 + l2 + d.sleep
                     /\ obs' = [observe(so = "ok", idle, mo = "ok", messages)
                                  EXCEPT !.exit = d.exit]
                     /\ waitEnd' = IF ~d.exit THEN waitEnd
                                   ELSE [polls |-> pollCount + 1,
                                         by |-> IF observe(so = "ok", idle, mo = "ok",
                                                              messages).analysis
                                                  THEN "keyword" ELSE "break"]
                     /\ proceed(IF d.exit THEN "messages" ELSE "poll")
  /\ UNCHANGED <<frame, groundTruth, runResult, lastSessionLogs, fullResponse, findings, data, artifacts,
                 runResults, calls, remoteCalls>>

\* mutant: the history fetched is not stored
messagesNotStored ==
  /\ pc = "messages"
  /\ \E o \in Outcomes, h \in HistoriesOf(backend) :
       /\ respond("messages", o, "findings", "Failed to get messages")
       /\ lastSessionLogs' = lastSessionLogs
       /\ fullResponse' = IF o = "ok" THEN fullResponseOf(h) ELSE fullResponse
  /\ elapsed' = 0
  /\ pollCount' = 0
  /\ UNCHANGED <<frame, audit, findings, data, artifacts, runResults, calls, obs>>

\* mutant: the response of the last fetch is not checked
messagesUnchecked ==
  /\ pc = "messages"
  /\ \E o \in Outcomes, h \in HistoriesOf(backend) :
       /\ respondIgnoresFailure("messages", o, "findings", "Failed to get messages")
       /\ lastSessionLogs' = IF o = "ok" THEN h ELSE lastSessionLogs
       /\ fullResponse' = IF o = "ok" THEN fullResponseOf(h) ELSE fullResponse
  /\ elapsed' = 0
  /\ pollCount' = 0
  /\ UNCHANGED <<frame, audit, findings, data, artifacts, runResults, calls, obs>>

\* the end of sendMessage: the last fetch of the message history
messages ==
  /\ pc = "messages"
  /\ \E o \in Outcomes, h \in HistoriesOf(backend) :
       /\ respond("messages", o, "findings", "Failed to get messages")
       /\ lastSessionLogs' = IF o = "ok" THEN h ELSE lastSessionLogs
       /\ fullResponse' = IF o = "ok" THEN fullResponseOf(h) ELSE fullResponse
  /\ elapsed' = 0
  /\ pollCount' = 0
  /\ UNCHANGED <<frame, audit, findings, data, artifacts, runResults, calls, obs>>

getSessionLogs == lastSessionLogs

\* what getFindingsFromProject returns for a response of outcome o and body data;
\* runAudit has by then dropped the text sendMessage returned
getFindingsFromProject(o, body) ==
  IF o = "ok" THEN mapFindings(body) ELSE <<>>

getFindings ==
  /\ pc = "findings"
  /\ \E o \in Outcomes, body \in FindingListsOf(backend) :
       /\ remoteCalls' = Append(remoteCalls, <<"findings", o>>)
       /\ data' = (IF o = "ok" THEN body ELSE <<>>)
       /\ findings' = getFindingsFromProject(o, body)
  /\ fullResponse' = <<>>
  /\ obs' = NoObs
  /\ proceed("saveResults")
  /\ UNCHANGED <<frame, audit, elapsed, pollCount, lastSessionLogs, artifacts, runResults,
                 calls>>

saveResults ==
  /\ pc = "saveResults"
  /\ artifacts' = Append(artifacts, projects[idx])
  /\ proceed("saveRunResult")
  /\ UNCHANGED <<frame, audit, elapsed, pollCount, lastSessionLogs, fullResponse, findings, data,
                 runResults, calls, remoteCalls, obs>>

\* mutant: the totals of the two finding lists are taken from the wrong list
buildRunResultSwapped(project, truth, ddFindings) ==
  [project |-> project,
   ground_truth |-> [total |-> Len(ddFindings), by_severity |-> bySeverity(truth)],
   dd_findings |-> [total |-> Len(truth)]]

buildRunResult(project, truth, ddFindings) ==
  [project |-> project,
   ground_truth |-> [total |-> Len(truth), by_severity |-> bySeverity(truth)],
   dd_findings |-> [total |-> Len(ddFindings)]]

\* mutant: the RunResult file is written twice
saveRunResultTwice ==
  /\ pc = "saveRunResult"
  /\ runResult' = <<buildRunResult(projects[idx], groundTruth, findings)>>
  /\ runResults' = runResults \o <<projects[idx], projects[idx]>>
  /\ auditCompleted
  /\ UNCHANGED <<frame, groundTruth, waitEnd, findings, data, elapsed, pollCount,
                 lastSessionLogs, fullResponse, artifacts, calls, remoteCalls, obs,
                 auditErr, errorMessage>>

\* buildRunResult and saveRunResult, then the scheduler's success path
saveRunResult ==
  /\ pc = "saveRunResult"
  /\ runResult' = <<buildRunResult(projects[idx], groundTruth, findings)>>
  /\ runResults' = Append(runResults, projects[idx])
  /\ auditCompleted
  /\ UNCHANGED <<frame, groundTruth, waitEnd, findings, data, elapsed, pollCount, lastSessionLogs, fullResponse,
                 artifacts, calls, remoteCalls, obs, auditErr, errorMessage>>

\* a start() call that is rejected never reads its argument
StartArguments(lists) == IF isRunning THEN {<<>>} ELSE lists

Next ==
  \/ \E ps \in StartArguments(ProjectLists) : start(ps)
  \/ stop
  \/ signal
  \/ saveCheckpoint
  \/ runAudit
  \/ createProject
  \/ ensureContainer
  \/ createSession
  \/ sendMessage
  \/ poll
  \/ messages
  \/ getFindings
  \/ saveResults
  \/ saveRunResult

Spec == Init /\ [][Next]_vars

\* One run of one audit, with the timeouts that exercise the whole polling
\* loop.
InitPoll == InitWith(Timeouts, "any", "quiet")

NextPoll ==
  \/ \E ps \in StartArguments([1..1 -> Names]) : runs = 0 /\ start(ps)
  \/ saveCheckpoint
  \/ runAudit
  \/ createProject
  \/ ensureContainer
  \/ createSession
  \/ sendMessage
  \/ poll
  \/ messages
  \/ getFindings
  \/ saveResults
  \/ saveRunResult

SpecPoll == InitPoll /\ [][NextPoll]_vars

\* One run of one audit against a backend that may leave a request
\* unanswered.  Whatever the event loop can resume, it resumes.
InitLive == InitWith(Timeouts, "silent", "quiet")

SpecLive == InitLive /\ [][NextPoll]_vars /\ WF_vars(NextPoll)

\* The runs of the scheduler under every configured concurrency, on a disk
\* whose writes may fail.
InitSetup == InitOf(SchedulerTimeouts, "reported", "quiet", SchedulerSettings, "failing")

SpecSetup == InitSetup /\ [][Next]_vars

\* The runs of the scheduler with event handlers that may throw or reject.
InitListeners == InitWith(SchedulerTimeouts, "reported", "failing")

NextListeners ==
  \/ \E ps \in StartArguments(ProjectLists) : runs = 0 /\ start(ps)
  \/ stop
  \/ signal
  \/ saveCheckpoint
  \/ runAudit
  \/ createProject
  \/ ensureContainer
  \/ createSession
  \/ sendMessage
  \/ poll
  \/ messages
  \/ getFindings
  \/ saveResults
  \/ saveRunResult

SpecListeners == InitListeners /\ [][NextListeners]_vars

TypeOK ==
  /\ settings \in SchedulerSettings
  /\ fs \in {"reliable", "failing"}
  /\ startPromise \in {None, "pending", "resolved", "rejected"}
  /\ pc \in {"idle", "runAudit", "createProject", "ensureContainer", "createSession",
             "sendMessage", "poll", "messages", "findings", "saveResults",
             "saveRunResult", "saveCheckpoint", "blocked"}
  /\ isRunning = (pc # "idle")

\* ------------------------------------------------------------ properties
Distinct(ps) == \A i, j \in DOMAIN ps : ps[i] = ps[j] => i = j
Ended(ev) == SelectSeq(ev, LAMBDA e : e.type \in {"project_completed", "error"})
Recorded == Len(checkpoint.completedProjects) + Len(checkpoint.failedProjects)
RunEnded == startPromise = "resolved"

\* C1 as stated: a run of N projects on an empty checkpoint that ends without
\* a stop leaves completedProjects.length + failedProjects.length = N, for
\* every project list.
C1_AllLists ==
  (RunEnded /\ emptyAtStart /\ ~stopRequested) => Recorded = Len(projects)

\* C1 amended: the same, for the project lists that name no project twice.
C1_DistinctNames ==
  (RunEnded /\ emptyAtStart /\ ~stopRequested /\ Distinct(projects))
    => Recorded = Len(projects)

C1_Witness ==
  /\ RunEnded /\ emptyAtStart /\ ~stopRequested /\ Distinct(projects)
  /\ Len(projects) = 2
  /\ Len(checkpoint.completedProjects) = 1
  /\ Len(checkpoint.failedProjects) = 1

\* C2: runAudit is never invoked, during a run, for a project that was in
\* completedProjects when start() was called.
C2_CompletedNeverAudited == Range(calls) \cap completedAtStart = {}

C2_Witness ==
  /\ RunEnded
  /\ Len(calls) >= 1
  /\ \E i \in DOMAIN projects : i >= 2 /\ projects[i] \in completedAtStart

\* C3: once a stop has arrived while a project was in flight, no further
\* project_started is emitted and runAudit is invoked for no later project;
\* when the run ends, the in-flight project has run to its end, is recorded
\* in completedProjects or failedProjects, and the checkpoint holding it has
\* been written and announced.
C3_StopInFlight ==
  stopMark >= 0 =>
    /\ Len(Started(events)) = stopMark
    /\ Len(calls) <= stopMark
    /\ RunEnded =>
         /\ Len(calls) = stopMark
         /\ Len(Ended(events)) = stopMark
         /\ Ended(events)[stopMark].project = Started(events)[stopMark].project
         /\ Started(events)[stopMark].project \in
              Range(checkpoint.completedProjects) \cup Range(checkpoint.failedProjects)
         /\ disk = checkpoint
         /\ events[Len(events)].type = "checkpoint_saved"

C3_Witness ==
  /\ RunEnded
  /\ stopMark = 1
  /\ Len(projects) = 2
  /\ projects[2] \notin
       Range(checkpoint.completedProjects) \cup Range(checkpoint.failedProjects)

\* C4: when runAudit throws, the project is appended to failedProjects, an
\* error event carrying the message of the error is emitted and the run goes
\* on: start() stays pending, and a run that ends without a stop has invoked
\* runAudit for every project of the list not completed before it.
C4_ErrorDoesNotEndRun ==
  /\ startPromise \in {None, "pending", "resolved"}
  /\ auditErr # None =>
       /\ pc = "saveCheckpoint"
       /\ isRunning
       /\ startPromise = "pending"
       /\ checkpoint.failedProjects # <<>>
       /\ checkpoint.failedProjects[Len(checkpoint.failedProjects)] = projects[idx]
       /\ events[Len(events)] = [type |-> "error", project |-> projects[idx]]
       /\ errorMessage = auditErr
  /\ (RunEnded /\ ~stopRequested) =>
       \A i \in DOMAIN projects : projects[i] \in Range(calls) \cup completedAtStart

C4_Witness ==
  /\ RunEnded /\ ~stopRequested
  /\ Len(events) >= 2 /\ events[2].type = "error"
  /\ Len(calls) = 2

\* C5: a start() that fails because the scheduler is running changes
\* nothing: isRunning stays true, shouldStop, the checkpoint and the position
\* of the run in progress are what they were.
C5_StartWhileRunning ==
  [][ (startThrew' /\ ~startThrew) =>
        /\ isRunning /\ isRunning'
        /\ UNCHANGED <<sched, runner, audit, handlers, config, events, calls, remoteCalls, obs,
                       auditErr, errorMessage, stopRequested, stopMark, emptyAtStart,
                       completedAtStart>> ]_vars

C5_Witness == startThrew /\ isRunning /\ shouldStop /\ pc = "poll"

Polling == pc \in {"poll", "messages"}
Called(step) == \E i \in DOMAIN remoteCalls : remoteCalls[i][1] = step
Answered(step, o) == \E i \in DOMAIN remoteCalls : remoteCalls[i] = <<step, o>>
Times(step) == Cardinality({ i \in DOMAIN remoteCalls : remoteCalls[i][1] = step })
LastCall == remoteCalls[Len(remoteCalls)]
\* the polling loop was left because its condition failed, not by a break
TimedOut == ~obs.exit

\* C6 as stated: the polling wait ends at or before the timeout and never
\* more than one poll interval after it (taking the longest sleep of the loop,
\* 15 s, as the interval).
C6_WithinOneInterval == pc = "messages" => elapsed <= timeout + WaitSleep

\* C6 amended: the polling wait ends less than one loop iteration after the
\* timeout, i.e. less than two fetch timeouts (10 s each) and one sleep
\* (at most 15 s) after it, and never before the grace period is over.
C6_WithinOneIteration ==
  pc = "messages" =>
    /\ elapsed < timeout + 2 * FetchTimeout + WaitSleep
    /\ elapsed >= GracePeriod

C6_Witness == pc = "messages" /\ pollCount > 0 /\ elapsed > timeout + WaitSleep

\* C7 as stated: whenever a poll sees a latest assistant message with a
\* completion keyword, polling stops and the wait is over before the timeout.
C7_KeywordEndsWait ==
  (Polling /\ obs.analysis) => (pc = "messages" /\ obs.exit /\ elapsed < timeout)

\* C7 amended: whenever a poll sees a latest assistant message with a
\* completion keyword, and the poll count has reached 6 or the message holds
\* no needs-more-information signal, polling stops in that iteration without
\* a sleep, less than two fetch timeouts after the timeout at the latest.
C7_KeywordEndsWaitUnlessAsking ==
  (Polling /\ obs.analysis /\ (pollCount >= EarlyPolls \/ ~obs.needs))
    => (pc = "messages" /\ obs.exit /\ elapsed < timeout + 2 * FetchTimeout)

C7_Witness ==
  pc = "messages" /\ obs.analysis /\ obs.needs /\ obs.exit /\ pollCount = EarlyPolls

\* the text parts of the latest assistant message of h, '' when there is none
LatestAssistantText(h) ==
  LET A == { k \in DOMAIN h : h[k].role = "assistant" }
  IN IF A = {} THEN <<>>
     ELSE LET k == CHOOSE k \in A : \A j \in A : j <= k
          IN textParts(h[k].content)

\* C8 as stated: when the timeout ends the wait, sendMessage does not throw.
C8_TimeoutNeverThrows == (TimedOut /\ Called("messages")) => auditErr = None

\* C8 amended: the timeout itself raises no error, it leads to the last fetch
\* of the message history; when that fetch succeeds, sendMessage returns the
\* text of the latest assistant message ('' when there is none) and finding
\* retrieval follows; when it does not, sendMessage throws and the audit fails.
C8_TimeoutKeepsPartialResult ==
  /\ (pc = "messages" /\ TimedOut) => (auditErr = None /\ elapsed >= timeout)
  /\ (pc = "findings" /\ TimedOut) =>
       /\ LastCall = <<"messages", "ok">>
       /\ auditErr = None
       /\ fullResponse = LatestAssistantText(lastSessionLogs)
  /\ Answered("messages", "ok") =>
       /\ pc \in {"findings", "saveResults", "saveRunResult", "saveCheckpoint"}
       /\ pc # "findings" => Called("findings")
  /\ (TimedOut /\ Called("messages") /\ ~Answered("messages", "ok")) =>
       /\ pc = "saveCheckpoint"
       /\ auditErr \in {"Failed to get messages", "fetch failed"}

C8_Witness ==
  /\ pc = "findings" /\ TimedOut /\ timeout > GracePeriod
  /\ obs.status = "idle" /\ ~obs.asst
  /\ assistantMsgs(lastSessionLogs) = <<>>
  /\ fullResponse = <<>>

AbortingSteps == {"createProject", "ensureContainer", "createSession", "chatStream"}

FailureMessage(step) ==
  CASE step = "createProject" -> "Failed to create project"
    [] step = "ensureContainer" -> "Failed to ensure container"
    [] step = "createSession" -> "Failed to create session"
    [] step = "chatStream" -> "Failed to start chat"

C10_FlakyCallTolerated ==
  (Polling /\ (obs.status = "fail" \/ obs.msgs = "fail")) =>
    /\ ~obs.exit
    /\ pc = "messages" => elapsed >= timeout

\* C11: a project whose ensure-container call is answered with a non-success
\* response ends as a failure: no session is created and no instruction is
\* sent for it, no finding artifact and no RunResult exists for it, and it is
\* the project last appended to failedProjects.
C11_ContainerFailureFailsProject ==
  (pc = "ensureContainer" => projects[idx] \notin Range(artifacts) \cup Range(runResults))
  /\ (pc = "createSession" => Answered("ensureContainer", "ok"))
  /\ (Answered("ensureContainer", "fail") =>
       /\ pc = "saveCheckpoint"
       /\ auditErr = "Failed to ensure container"
       /\ ~Called("createSession") /\ ~Called("chatStream")
       /\ ~Called("messages") /\ ~Called("findings")
       /\ projects[idx] \notin Range(artifacts)
       /\ projects[idx] \notin Range(runResults)
       /\ checkpoint.failedProjects # <<>>
       /\ checkpoint.failedProjects[Len(checkpoint.failedProjects)] = projects[idx]
       /\ projects[idx] \notin Range(checkpoint.completedProjects))

C11_Witness ==
  /\ pc = "saveCheckpoint"
  /\ idx = 2
  /\ remoteCalls = <<<<"createProject", "ok">>, <<"ensureContainer", "fail">>>>
  /\ checkpoint.completedProjects = <<projects[1]>>
  /\ checkpoint.failedProjects = <<projects[2]>>
  /\ artifacts = <<projects[1]>>
  /\ runResults = <<projects[1]>>

RemoteSteps ==
  <<"createProject", "ensureContainer", "createSession", "chatStream", "messages",
    "findings">>

\* C12: within one audit the remote steps are made in the order create
\* project, ensure container, create session, dispatch instruction, completion
\* wait, finding retrieval, persistence: each request is made once and only
\* after the response of the step before it was a success, the polls of the
\* wait lie between the dispatch and the last fetch of the messages, and the
\* results are persisted only after the findings were retrieved.
C12_StepsInOrder ==
  /\ Len(remoteCalls) <= Len(RemoteSteps)
  /\ \A i \in DOMAIN remoteCalls :
       /\ remoteCalls[i][1] = RemoteSteps[i]
       /\ (i < Len(remoteCalls) => remoteCalls[i][2] = "ok")
  /\ (pc = "poll" \/ pollCount > 0) =>
       (remoteCalls # <<>> /\ LastCall = <<"chatStream", "ok">>)
  /\ pc = "messages" => (remoteCalls # <<>> /\ LastCall = <<"chatStream", "ok">>)
  /\ pc \in {"saveResults", "saveRunResult"} =>
       (Len(remoteCalls) = Len(RemoteSteps) /\ LastCall[1] = "findings")
  /\ pc = "saveRunResult" =>
       (artifacts # <<>> /\ artifacts[Len(artifacts)] = projects[idx])

C12_Witness ==
  /\ pc = "saveRunResult"
  /\ Len(remoteCalls) = Len(RemoteSteps)
  /\ \A i \in DOMAIN remoteCalls : remoteCalls[i] = <<RemoteSteps[i], "ok">>

Severities == {"critical", "high", "medium", "low", "info"}
Absent(raw) == raw = None \/ raw = ""
Needles(raw) == SeverityNeedles(toLowerCaseSeverity(raw))

\* C13 as stated: every severity the mapping returns is one of critical,
\* high, medium, low, info, and every absent input and every input holding
\* none of 'crit', 'high', 'med', 'low' is mapped to medium.
C13_UnrecognizedIsMedium ==
  \A i \in DOMAIN data :
    /\ findings[i] \in Severities
    /\ (Absent(data[i]) \/ Needles(data[i]) = {}) => findings[i] = "medium"

\* C13 amended: every severity the mapping returns is one of critical, high,
\* medium, low, info; an absent or empty input is mapped to medium; a
\* non-empty input holding none of 'crit', 'high', 'med', 'low' (case-
\* insensitively) is mapped to info; otherwise the first of 'crit', 'high',
\* 'med', 'low' the input holds decides.
C13_TotalWithInfoFallback ==
  /\ Len(findings) = Len(data)
  /\ \A i \in DOMAIN data :
       /\ findings[i] \in Severities
       /\ Absent(data[i]) => findings[i] = "medium"
       /\ (~Absent(data[i]) /\ Needles(data[i]) = {}) => findings[i] = "info"
       /\ (~Absent(data[i]) /\ "crit" \in Needles(data[i])) => findings[i] = "critical"
       /\ (~Absent(data[i]) /\ Needles(data[i]) \cap {"crit"} = {}
             /\ "high" \in Needles(data[i])) => findings[i] = "high"
       /\ (~Absent(data[i]) /\ Needles(data[i]) \cap {"crit", "high"} = {}
             /\ "med" \in Needles(data[i])) => findings[i] = "medium"
       /\ (~Absent(data[i]) /\ Needles(data[i]) = {"low"}) => findings[i] = "low"

C13_Witness ==
  pc = "saveResults" /\ data = <<"Unknown">> /\ findings = <<"info">>

\* C14: the mapping is idempotent: mapping a severity it returned gives that
\* severity again, for every input the findings endpoint may hold.
C14_Idempotent ==
  \A i \in DOMAIN data :
    /\ findings[i] = normalizeSeverity(data[i])
    /\ normalizeSeverity(findings[i]) = findings[i]

C14_Witness ==
  pc = "saveResults" /\ data = <<"Highly critical">> /\ findings = <<"critical">>

AllOk == \A i \in DOMAIN remoteCalls : remoteCalls[i][2] = "ok"

\* the scenario of C15: the one project 'demo-proj' on an empty checkpoint,
\* a ground truth of one high and one medium finding, a session found idle
\* with a completion keyword in its latest assistant message at the third
\* poll, one finding reported, and the audit has returned
DemoScenario ==
  /\ pc = "saveCheckpoint"
  /\ auditErr = None
  /\ projects = <<"demo-proj">>
  /\ emptyAtStart
  /\ groundTruth = <<"high", "medium">>
  /\ waitEnd = [polls |-> 3, by |-> "keyword"]
  /\ AllOk
  /\ Len(data) = 1

\* C15: in that scenario the RunResult written has ground_truth.total = 2,
\* ground_truth.by_severity = {high: 1, medium: 1} and dd_findings.total = 1,
\* a RunResult file and a finding artifact exist for the project, and the
\* checkpoint lists 'demo-proj' in completedProjects and nowhere else.
C15_DemoScenario ==
  DemoScenario =>
    /\ Len(runResult) = 1
    /\ runResult[1].project = "demo-proj"
    /\ runResult[1].ground_truth.total = 2
    /\ runResult[1].ground_truth.by_severity = [s \in {"high", "medium"} |-> 1]
    /\ runResult[1].dd_findings.total = 1
    /\ runResults = <<"demo-proj">>
    /\ artifacts = <<"demo-proj">>
    /\ checkpoint.completedProjects = <<"demo-proj">>
    /\ checkpoint.failedProjects = <<>>
    /\ checkpoint.currentProject = None

C15_Witness ==
  /\ DemoScenario
  /\ timeout = 66
  /\ data = <<"CRITICAL">>
  /\ assistantMsgs(lastSessionLogs) # <<>>
  /\ analysisPerformed(msgText(assistantMsgs(lastSessionLogs)[Len(assistantMsgs(lastSessionLogs))]))

InAudit == pc \notin {"idle", "saveCheckpoint"}

\* C16: after every attempted project, completed or failed, and before the
\* next project is started, currentProject is cleared, the whole checkpoint is
\* written to disk and a checkpoint_saved event is emitted: in the events of a
\* run the end of an attempt is followed by checkpoint_saved and nothing else,
\* a project_started other than the first follows a checkpoint_saved, and
\* from then on the file holds the lists of the checkpoint and no current
\* project.
C16_CheckpointAfterEveryProject ==
  /\ \A i \in DOMAIN events :
       /\ (events[i].type \in {"project_completed", "error"} /\ i < Len(events))
            => events[i + 1].type = "checkpoint_saved"
       /\ (events[i].type = "project_started" /\ i > 1)
            => events[i - 1].type = "checkpoint_saved"
       /\ events[i].type = "checkpoint_saved"
            => (i > 1 /\ events[i - 1].type \in {"project_completed", "error"})
  /\ pc = "saveCheckpoint" =>
       /\ events[Len(events)].type \in {"project_completed", "error"}
       /\ checkpoint.currentProject = None
  /\ (events # <<>> /\ pc # "saveCheckpoint") =>
       events[Len(events)].type \in {"project_started", "checkpoint_saved"}
  /\ (Len(Ended(events)) > 0 /\ pc # "saveCheckpoint") =>
       /\ disk = [checkpoint EXCEPT !.currentProject = None]
       /\ Len(disk.completedProjects) + Len(disk.failedProjects) >= Len(Ended(events))
  /\ Len(Started(events)) = Len(Ended(events)) + (IF InAudit THEN 1 ELSE 0)

C16_Witness ==
  /\ RunEnded
  /\ Len(events) = 7
  /\ events[2].type = "error"
  /\ events[3].type = "checkpoint_saved"
  /\ events[4].type = "project_started"
  /\ events[7].type = "checkpoint_saved"
  /\ disk = checkpoint
  /\ Len(disk.completedProjects) = 1 /\ Len(disk.failedProjects) = 1

\* C17: a handler that throws, or whose promise rejects, on an event does
\* not abort the run: every handler is invoked with every event of the run,
\* the outcome of every audited project is recorded and the loop goes on, so
\* that a run that ends without a stop has attempted every project of the
\* list that was not completed before.
C17_HandlerFailureIsContained ==
  /\ \A h \in Handlers : received[h] = Len(events)
  /\ startPromise \in {None, "pending", "resolved"}
  /\ isRunning => startPromise = "pending"
  /\ Len(Ended(events)) = Len(calls) - (IF InAudit /\ pc # "runAudit" THEN 1 ELSE 0)
  /\ (RunEnded /\ ~stopRequested) =>
       /\ \A i \in DOMAIN projects : projects[i] \in Range(calls) \cup completedAtStart
       /\ Recorded = Len(calls)

C17_Witness ==
  /\ RunEnded /\ ~stopRequested
  /\ threwOn = "project_started"
  /\ Len(projects) = 2
  /\ Len(calls) = 2
  /\ Len(checkpoint.completedProjects) = 1
  /\ Len(checkpoint.failedProjects) = 1
  /\ \A h \in Handlers : received[h] = 7

Count(seq, x) == Cardinality({ i \in DOMAIN seq : seq[i] = x })
NotCompletedBefore(name) == name \notin completedAtStart
Pending == SelectSeq(projects, NotCompletedBefore)
StartedNames == [i \in DOMAIN Started(events) |-> Started(events)[i].project]
IsPrefix(a, b) == Len(a) <= Len(b) /\ a = SubSeq(b, 1, Len(a))

C19_StartedIsPendingList == RunEnded => StartedNames = Pending

\* C19 amended: for a list that names no project twice, the project_started
\* events of a run are, in order, the supplied list without the projects
\* completed before the run: a prefix of it at any time and after a stop, the
\* whole of it when the run ends without a stop.  (Of a project named twice,
\* the second entry is started only if the first attempt failed.)
C19_StartedInListOrder ==
  /\ Distinct(projects) =>
       /\ IsPrefix(StartedNames, Pending)
       /\ (RunEnded /\ ~stopRequested) => StartedNames = Pending
  /\ Len(StartedNames) <= Len(Pending)
  /\ InAudit => StartedNames[Len(StartedNames)] = projects[idx]
  /\ \A i, j \in DOMAIN StartedNames :
       (i < j /\ StartedNames[i] = StartedNames[j])
         => StartedNames[i] \in Range(checkpoint.failedProjects)

C19_Witness ==
  /\ RunEnded /\ ~stopRequested /\ Distinct(projects)
  /\ Len(projects) = 2
  /\ completedAtStart = {}
  /\ Len(checkpoint.failedProjects) >= 1
  /\ StartedNames = projects

\* C20: no operation blocks for ever: a run that was started ends, i.e.
\* start() settles, also when the backend leaves a request unanswered.
C20_RunEnds == (startPromise = "pending") ~> (startPromise = "resolved")

\* C25: while the status answer shows a run in progress (status not idle, or
\* a runningId), the poll never declares completion, whatever the poll count,
\* the hard ceiling included; the loop goes on, and only the timeout takes it
\* to the last fetch of the messages.
C25_BusyNeverCompletes ==
  (Polling /\ obs.status = "busy") =>
    /\ ~obs.exit
    /\ pc = "messages" => (waitEnd.by = "timeout" /\ elapsed >= timeout)

C25_Witness ==
  pc = "poll" /\ obs.status = "busy" /\ ~obs.exit /\ pollCount >= HardCeiling

\* C26 as stated: with the session idle and a latest assistant message
\* present, the poll declares completion exactly when the message shows
\* evidence of analysis or the poll count has reached the hard ceiling.
C26_EvidenceOrCeiling ==
  (Polling /\ obs.status = "idle" /\ obs.asst) =>
    (obs.exit <=> (obs.analysis \/ pollCount >= HardCeiling))

\* C26 amended: the same, except below poll 6 for a message that carries a
\* needs-more-information signal: there the poll keeps waiting whatever else
\* the message holds.
C26_EvidenceOrCeilingUnlessAsking ==
  (Polling /\ obs.status = "idle" /\ obs.asst) =>
    (obs.exit <=> /\ ~(pollCount < EarlyPolls /\ obs.needs)
                  /\ (obs.analysis \/ pollCount >= HardCeiling))

C26_Witness ==
  /\ pc = "messages" /\ obs.status = "idle" /\ obs.asst
  /\ ~obs.analysis /\ obs.exit /\ pollCount = HardCeiling

\* C27: below poll 6 a latest assistant message with a needs-more-information
\* signal keeps the wait going, also when it holds a completion keyword; from
\* poll 6 on the signal has no effect: the poll declares completion exactly
\* when the message holds a keyword or the hard ceiling is reached.
C27_AskingKeepsWaitingEarly ==
  (Polling /\ obs.status = "idle" /\ obs.asst /\ obs.needs) =>
    /\ pollCount < EarlyPolls => ~obs.exit
    /\ pollCount >= EarlyPolls =>
         (obs.exit <=> (obs.analysis \/ pollCount >= HardCeiling))

C27_Witness ==
  /\ pc = "poll" /\ obs.status = "idle" /\ obs.needs /\ obs.analysis
  /\ ~obs.exit /\ pollCount = EarlyPolls - 1

\* C28: with the session idle and a history that holds no assistant message,
\* the poll keeps waiting while the poll count is below 6 and stops polling
\* from poll 6 on.
C28_NoAssistantMessage ==
  (Polling /\ obs.status = "idle" /\ obs.msgs = "ok" /\ ~obs.asst) =>
    (obs.exit <=> pollCount >= EarlyPolls)

C28_Witness ==
  /\ pc = "messages" /\ obs.status = "idle" /\ obs.msgs = "ok" /\ ~obs.asst
  /\ obs.exit /\ pollCount = EarlyPolls /\ waitEnd.by = "break"

C23_TimeoutIsReported ==
  (waitEnd.by = "timeout" /\ pc \in {"findings", "saveResults", "saveRunResult"})
    => auditErr # None

\* C24: once sendMessage has returned, what it returned is the concatenated
\* text parts of the latest assistant message of the history it fetched last
\* ('' when that holds none), and getSessionLogs() gives that whole history,
\* the user's message included.
C24_ReturnsLatestAssistantText ==
  /\ pc = "findings" =>
       /\ getSessionLogs \in HistoriesOf(backend)
       /\ getSessionLogs[1] = UserMsg
       /\ fullResponse = LatestAssistantText(getSessionLogs)
  /\ pc \in {"saveResults", "saveRunResult"} =>
       (getSessionLogs \in HistoriesOf(backend) /\ getSessionLogs[1] = UserMsg)
  /\ pc \in {"createProject", "ensureContainer", "createSession", "sendMessage",
              "poll", "messages"} => getSessionLogs = <<>>

C24_Witness ==
  /\ pc = "findings"
  /\ waitEnd.by = "keyword"
  /\ getSessionLogs = <<UserMsg, Analysed, Neutral>>
  /\ fullResponse = <<"Cloning">>

Follows(i, types) ==
  i > 1 /\ events[i - 1].type \in types /\ events[i - 1].project = events[i].project

\* C29: the events of an attempt come in a fixed order: project_started,
\* then either audit_completed, project_completed, checkpoint_saved or error,
\* checkpoint_saved, all for the same project; no attempt has both a
\* project_completed and an error event; and a project is current (active)
\* from its project_started to the end of its attempt, when it is appended to
\* completedProjects or to failedProjects, and at no other time.
C29_EventsInOrder ==
  /\ events # <<>> => events[1].type = "project_started"
  /\ \A i \in DOMAIN events :
       /\ events[i].type \in {"project_started", "audit_completed", "project_completed",
                               "error", "checkpoint_saved"}
       /\ events[i].type = "project_started" =>
            (i = 1 \/ events[i - 1].type = "checkpoint_saved")
       /\ events[i].type = "audit_completed" => Follows(i, {"project_started"})
       /\ events[i].type = "project_completed" => Follows(i, {"audit_completed"})
       /\ events[i].type = "error" => Follows(i, {"project_started"})
       /\ events[i].type = "checkpoint_saved" =>
            (i > 1 /\ events[i - 1].type \in {"project_completed", "error"})
       /\ (events[i].type = "audit_completed" /\ i < Len(events)) =>
            events[i + 1].type = "project_completed"
  /\ InAudit <=> checkpoint.currentProject # None
  /\ InAudit =>
       /\ checkpoint.currentProject = projects[idx]
       /\ events[Len(events)] = [type |-> "project_started", project |-> projects[idx]]
       /\ projects[idx] \notin Range(checkpoint.completedProjects)
  /\ pc = "saveCheckpoint" =>
       /\ events[Len(events)].type = "project_completed"
            => checkpoint.completedProjects[Len(checkpoint.completedProjects)] = projects[idx]
       /\ events[Len(events)].type = "error"
            => checkpoint.failedProjects[Len(checkpoint.failedProjects)] = projects[idx]
       /\ events[Len(events)].project = projects[idx]

C29_Witness ==
  /\ RunEnded
  /\ Len(events) = 7
  /\ events[1].type = "project_started"
  /\ events[2].type = "audit_completed"
  /\ events[3].type = "project_completed"
  /\ events[4].type = "checkpoint_saved"
  /\ events[5].type = "project_started"
  /\ events[6].type = "error"
  /\ events[7].type = "checkpoint_saved"

\* audits begun and not yet ended, as the events of the run show them
InFlight == Len(Started(events)) - Len(Ended(events))

\* C21: at any moment at most one audit is in flight, whatever
\* maxConcurrentProjects is configured and whatever start() calls are made
\* during a run: the project_started events of a run exceed its
\* project_completed and error events by at most one, runAudit has been
\* invoked once per project_started, and an audit is in flight exactly when
\* the control thread is inside one.
C21_OneAuditInFlight ==
  /\ InFlight \in {0, 1}
  /\ InFlight = 1 <=> InAudit
  /\ Len(calls) \in {Len(Started(events)), Len(Started(events)) - 1}
  /\ Len(calls) = Len(Started(events)) - 1 <=> pc = "runAudit"

C21_Witness ==
  /\ settings.maxConcurrentProjects = 3
  /\ startThrew
  /\ InAudit
  /\ Len(Started(events)) = 2
  /\ InFlight = 1

\* C30: isRunning is true exactly while the promise of an accepted start()
\* is pending, and false once it has resolved or rejected; a start() call
\* fails with 'Benchmark is already running' only while one is pending.
C30_RunningWhileStartPending ==
  /\ [](/\ isRunning <=> startPromise = "pending"
        /\ startPromise \in {None, "resolved", "rejected"} => pc = "idle")
  /\ [][(startThrew' /\ ~startThrew) => startPromise = "pending"]_vars
  /\ [][(startPromise' = "pending" /\ startPromise # "pending") => runs' = runs + 1]_vars

\* a second run is in progress after the first one was rejected by its first
\* checkpoint write
C30_Witness ==
  /\ runs = 2
  /\ isRunning
  /\ startPromise = "pending"
  /\ disk = None
  /\ Recorded >= 1

\* C31: completedProjects and failedProjects are sets: whatever start()
\* calls were made with whatever project lists, no name occurs twice in
\* completedProjects and none occurs twice in failedProjects.
C31_ListsAreSets ==
  /\ Distinct(checkpoint.completedProjects)
  /\ Distinct(checkpoint.failedProjects)

\* C32: when the message history fetched after the polling loop is answered
\* with a non-success response, the audit throws 'Failed to get messages':
\* the findings are not requested, no finding artifact and no RunResult is
\* written, and the project is recorded as failed and not as completed,
\* whatever ended the polling loop.
C32_FinalFetchFailureFailsAudit ==
  Answered("messages", "fail") =>
    /\ pc = "saveCheckpoint"
    /\ LastCall = <<"messages", "fail">>
    /\ auditErr = "Failed to get messages"
    /\ errorMessage = "Failed to get messages"
    /\ ~Called("findings")
    /\ findings = <<>>
    /\ runResult = <<>>
    /\ projects[idx] \notin Range(artifacts)
    /\ projects[idx] \notin Range(runResults)
    /\ checkpoint.failedProjects # <<>>
    /\ checkpoint.failedProjects[Len(checkpoint.failedProjects)] = projects[idx]
    /\ projects[idx] \notin Range(checkpoint.completedProjects)
    /\ events[Len(events)] = [type |-> "error", project |-> projects[idx]]

\* the polling loop had found the evidence of analysis before the fetch failed
C32_Witness ==
  /\ Answered("messages", "fail")
  /\ waitEnd.by = "keyword"
  /\ pc = "saveCheckpoint"
  /\ checkpoint.failedProjects = <<projects[idx]>>

\* C33: every iteration of the polling loop increments the poll count, the
\* iterations whose status check was answered with a non-success response
\* included, and the count that has grown this way is the one the thresholds
\* of 6 and 12 are compared with: the loop is never left by a break below
\* poll 6, and each iteration, counted, has taken at least the sleep after a
\* failed status check.
C33_FailedChecksAreCounted ==
  /\ [][(pc = "poll" /\ pc' = "poll" /\ elapsed' # elapsed)
          => pollCount' = pollCount + 1]_vars
  /\ [][(pc = "poll" /\ pc' = "messages" /\ elapsed < timeout)
          => (pollCount' = pollCount + 1 /\ waitEnd'.polls = pollCount')]_vars
  /\ [](pc = "poll" => elapsed >= GracePeriod + pollCount * StatusFailSleep)
  /\ []((pc = "messages" /\ waitEnd.by = "break" /\ ~obs.asst) => waitEnd.polls >= EarlyPolls)

\* the loop is left at poll 6, or at poll 12, sooner than that many
\* iterations with an answered status check can take
C33_Witness ==
  /\ pc = "messages"
  /\ waitEnd.by = "break"
  /\ \/ waitEnd.polls = EarlyPolls /\ ~obs.asst
        /\ elapsed < GracePeriod + (EarlyPolls - 1) * PollInterval
     \/ waitEnd.polls = HardCeiling /\ obs.asst
        /\ elapsed < GracePeriod + (HardCeiling - 1) * PollInterval

====
